---- MODULE Spec2Model ----
(***************************************************************************)
(* Stock ledger and demand maintenance of bridges-ops (src/app.py).        *)
(*                                                                         *)
(* The database tables are the state.  Every Flask handler is a database   *)
(* transaction made of the SQL statements the ORM session emits, in the    *)
(* order the handler's code makes it emit them.  A handler is described    *)
(* once, as a step function over (committed database, session-local        *)
(* state); Spec runs each handler to completion in one action (requests    *)
(* served one at a time), SpecConc interleaves the statements of the       *)
(* handlers of several sessions (PostgreSQL READ COMMITTED: a session      *)
(* reads committed rows only, its own writes become visible at COMMIT),    *)
(* SpecLectura serves the read handlers from a ledger of several items.    *)
(***************************************************************************)
EXTENDS Integers, FiniteSets, Sequences, TLC

\* ------------------------------------------------------------------ bounds
\* Spec: at most MaxRows rows are ever inserted into all tables together.
MaxRows == 6
\* SpecConc: at most MaxReq requests are served.
MaxReq == 3

\* ------------------------------------------------------- request inputs
\* form field "nombre"
Nombres == {"a"}
\* form field "categoria"; "" is the missing/blank field
CategoriasForm == {"", "X"}
\* form fields "cantidad" / "cantidad_asignada" after int()
CantidadesForm == {-1, 0, 1}
\* the quantities a column may hold in the model
Cantidades == -1..2
\* ids a request may name (0 names no row of any table); no table hands
\* out an id that no request can name
IdsForm == {0, 1, 2}
\* form field "nombre_material"
NombresMaterial == {"", "m"}
\* the sessions (request threads); session 1 alone serves Spec
Sessions == {1, 2}

\* seed_almacenes: the three rows of table almacenes, ids 1..3.
AlmacenesSeed == {1, 2, 3}
\* form field "almacen_movimiento_id": two seeded warehouses and an unknown id
AlmacenesForm == {1, 2, 4}

VARIABLES
  inventario,        \* table inventario: rows [id, nombre, categoria, consumo_estimado]
  stock,             \* table stock: rows [id, item_id, almacen_id, cantidad]
  materiales,        \* table materiales: the ids of its rows
  asignacion_items,  \* table asignacion_items: rows [id, material_id, item_id, cantidad_asignada]
  seq,               \* the next value of each table's id sequence
  sess,              \* per session: the handler it runs, its position and its locals
  reqs               \* SpecConc: the number of requests started

vars == <<inventario, stock, materiales, asignacion_items, seq, sess, reqs>>
tables == <<inventario, stock, materiales, asignacion_items>>

\* ------------------------------------------------------------- helpers
\* The committed database as one value.
DB ==
  [inventario |-> inventario, stock |-> stock, materiales |-> materiales,
   asignacion_items |-> asignacion_items, seq |-> seq]

Install(d) ==
  /\ inventario' = d.inventario
  /\ stock' = d.stock
  /\ materiales' = d.materiales
  /\ asignacion_items' = d.asignacion_items
  /\ seq' = d.seq

\* "no row": what .first() / Session.get() return as None
NoStock == [id |-> 0, item_id |-> 0, almacen_id |-> 0, cantidad |-> 0]
NoAsignacion == [id |-> 0, material_id |-> 0, item_id |-> 0, cantidad_asignada |-> 0]
NoItem == [id |-> 0, nombre |-> "", categoria |-> "", consumo_estimado |-> 0]

Idle == [op |-> "none", pc |-> "idle", status |-> 0]

\* One outcome of a step: the database and the session afterwards.
Out(d, l) == [db |-> d, l |-> l]

\* The handler returned: HTTP status st (500: an exception left the handler).
\* finally: s.close() discards whatever the session had not committed.
Done(l, st) == [l EXCEPT !.pc = "done", !.status = st]

Max(a, b) == IF a >= b THEN a ELSE b

RECURSIVE SumOver(_, _, _)
\* sum of field f of the rows of set S that satisfy nothing more (S is given)
SumOver(S, f, acc) ==
  IF S = {} THEN acc
  ELSE LET r == CHOOSE x \in S : TRUE IN SumOver(S \ {r}, f, acc + r[f])

\* The model's bounds on a database value.
Bounded(d) ==
  /\ \A it \in d.inventario : it.consumo_estimado \in Cantidades
  /\ \A r \in d.stock : r.cantidad \in Cantidades
  /\ \A r \in d.asignacion_items : r.cantidad_asignada \in Cantidades
  /\ \A t \in DOMAIN d.seq : d.seq[t] - 1 \in IdsForm
  /\ (d.seq.inventario - 1) + (d.seq.stock - 1) + (d.seq.materiales - 1)
       + (d.seq.asignacion_items - 1) <= MaxRows

\* Session.get(Inventario, id)
GetItem(d, id) ==
  IF \E it \in d.inventario : it.id = id
  THEN CHOOSE it \in d.inventario : it.id = id
  ELSE NoItem

\* Session.get(AsignacionItem, id)
GetAsignacion(d, id) ==
  IF \E r \in d.asignacion_items : r.id = id
  THEN CHOOSE r \in d.asignacion_items : r.id = id
  ELSE NoAsignacion

\* Query.first() without ORDER BY: None, or any one of the matching rows.
First(rows, none) == IF rows = {} THEN {none} ELSE rows

\* ------------------------------------------------- locks of open sessions
\* A session between its flush and its COMMIT holds the locks of the
\* statements it has executed; "others" are the locals of the other sessions.

\* flushed INSERT INTO inventario (agregar, s.flush()): the unique index
\* entry of nombre is held until COMMIT.
PendingItemInsert(o, nombre) ==
  o.op = "agregar" /\ o.pc = "commit" /\ o.new_item /\ o.nombre = nombre

\* flushed UPDATE asignacion_items (asignar_items, autoflush of s.get):
\* the row is locked until COMMIT.
PendingAsignacionUpdate(o, id) ==
  /\ o.op = "asignar_items" /\ o.pc = "commit"
  /\ o.asignacion.id = id /\ o.cantidad_asignada # 0

\* flushed INSERT INTO asignacion_items: the referenced material and item
\* rows are key-share locked until COMMIT.
PendingAsignacionInsert(o) ==
  o.op = "asignar_items" /\ o.pc = "commit" /\ o.asignacion.id = 0

\* executed DELETE FROM asignacion_items WHERE item_id = ... of
\* eliminar_item_inventario: the deleted rows are locked until COMMIT.
PendingAsignacionDelete(o, id) ==
  /\ o.op = "eliminar_item_inventario" /\ o.pc \in {"delete_stock", "commit"}
  /\ id \in o.del_asig

\* executed DELETE FROM stock WHERE item_id = ... of eliminar_item_inventario
PendingStockDelete(o, id) ==
  o.op = "eliminar_item_inventario" /\ o.pc = "commit" /\ id \in o.del_stock

\* the row of asignacion_items is locked by another session
AsignacionLocked(others, id) ==
  \E o \in others : PendingAsignacionUpdate(o, id) \/ PendingAsignacionDelete(o, id)

\* ------------------------------------------------------------- agregar
\* (mutant) the table created without its unique constraint
uq_stock_ausente(rows, item_id, almacen_id) == TRUE

\* Stock.__table_args__: UniqueConstraint("item_id", "almacen_id")
uq_stock_item_almacen(rows, item_id, almacen_id) ==
  ~ \E r \in rows : r.item_id = item_id /\ r.almacen_id = almacen_id

\* (mutant) the category of an existing item is not compared
CategoriaNoComparada(item, categoria) == FALSE

\* if item.categoria != categoria
CategoriaDistinta(item, categoria) == item.categoria # categoria

\* (mutant) st.cantidad = cantidad
StockSobrescrito(st, cantidad) == cantidad

\* st.cantidad += cantidad
StockSumado(st, cantidad) == st.cantidad + cantidad

agregar_begin(nombre, cantidad, categoria, almacen_mov_id) ==
  [op |-> "agregar", pc |-> "select_item", status |-> 0,
   nombre |-> nombre, cantidad |-> cantidad,
   categoria |-> IF categoria = "" THEN "Sin categoria" ELSE categoria,
   almacen_mov_id |-> almacen_mov_id,
   item_id |-> 0, new_item |-> FALSE, st |-> NoStock]

agregar_step(d, l, others) ==
  CASE l.pc = "select_item" ->
         \* item = s.query(Inventario).filter_by(nombre=nombre).first()
         LET items == {it \in d.inventario : it.nombre = l.nombre} IN
         IF items = {}
         THEN {Out(d, [l EXCEPT !.pc = "insert_item"])}
         ELSE UNION {
                IF CategoriaDistinta(item, l.categoria)
                THEN {Out(d, Done(l, 400))}
                ELSE \* st = s.query(Stock).filter_by(...).first()
                     {Out(d, [l EXCEPT !.pc = "commit", !.item_id = item.id, !.st = row]) :
                        row \in First({r \in d.stock : r.item_id = item.id
                                          /\ r.almacen_id = l.almacen_mov_id}, NoStock)}
                : item \in items}
    [] l.pc = "insert_item" ->
         \* s.add(item); s.flush(): INSERT INTO inventario
         IF \E o \in others : PendingItemInsert(o, l.nombre)
         THEN {}                                  \* waits for the other INSERT's transaction
         ELSE IF \E it \in d.inventario : it.nombre = l.nombre
         THEN {Out(d, Done(l, 500))}              \* IntegrityError: inventario.nombre unique
         ELSE \* the Stock query for the fresh id finds nothing
              {Out([d EXCEPT !.seq.inventario = @ + 1],
                   [l EXCEPT !.pc = "commit", !.item_id = d.seq.inventario,
                             !.new_item = TRUE, !.st = NoStock])}
    [] l.pc = "commit" ->
         LET inv1 == IF l.new_item
                     THEN d.inventario \cup
                            {[id |-> l.item_id, nombre |-> l.nombre,
                              categoria |-> l.categoria, consumo_estimado |-> 0]}
                     ELSE d.inventario
             nueva == StockSumado(l.st, l.cantidad)
         IN
         IF l.st.id # 0
         THEN IF nueva = l.st.cantidad
              THEN {Out(d, Done(l, 302))}         \* no net change: no UPDATE is emitted
              ELSE IF \E o \in others : PendingStockDelete(o, l.st.id)
              THEN {}                             \* UPDATE waits for the row lock
              ELSE IF ~ \E r \in d.stock : r.id = l.st.id
              THEN {Out(d, Done(l, 500))}         \* StaleDataError: UPDATE matched 0 rows
              ELSE {Out([d EXCEPT !.stock =
                           {IF r.id = l.st.id THEN [r EXCEPT !.cantidad = nueva] ELSE r
                              : r \in d.stock}],
                        Done(l, 302))}
         ELSE \* s.add(Stock(...)): INSERT INTO stock
              IF \/ ~ \E it \in inv1 : it.id = l.item_id           \* FK inventario.id
                 \/ l.almacen_mov_id \notin AlmacenesSeed           \* FK almacenes.id
                 \/ ~ uq_stock_item_almacen(d.stock, l.item_id, l.almacen_mov_id)
              THEN {Out(d, Done(l, 500))}         \* IntegrityError, everything rolled back
              ELSE {Out([d EXCEPT !.inventario = inv1,
                                  !.stock = @ \cup {[id |-> d.seq.stock, item_id |-> l.item_id,
                                                     almacen_id |-> l.almacen_mov_id,
                                                     cantidad |-> l.cantidad]},
                                  !.seq.stock = @ + 1],
                        Done(l, 302))}

\* ---------------------------------------------------- asignar_items
\* asignacion.cantidad_asignada += cantidad_asignada
AsignacionSumada(asignacion, cantidad_asignada) ==
  asignacion.cantidad_asignada + cantidad_asignada

\* item.consumo_estimado = (item.consumo_estimado or 0) + cantidad_asignada
ConsumoSumado(consumo_estimado, cantidad_asignada) ==
  consumo_estimado + cantidad_asignada

\* The rows of asignacion_items after the session's INSERT or UPDATE.
AsignacionEscrita(rows, l) ==
  IF l.asignacion.id = 0
  THEN rows \cup {[id |-> l.asig_id, material_id |-> l.material_id,
                   item_id |-> l.item_id, cantidad_asignada |-> l.cantidad_asignada]}
  ELSE {IF r.id = l.asignacion.id
        THEN [r EXCEPT !.cantidad_asignada =
                AsignacionSumada(l.asignacion, l.cantidad_asignada)]
        ELSE r : r \in rows}

\* (mutant) the allocation is committed, the demand update is lost
asignar_items_commit_parcial(d, l) ==
  {Out([d EXCEPT !.asignacion_items = AsignacionEscrita(@, l)], Done(l, 302))}

\* (mutant) the allocation is also taken out of the item's stock rows
asignar_items_commit_descuenta(d, l) ==
  {Out([d EXCEPT
          !.asignacion_items = AsignacionEscrita(@, l),
          !.inventario =
             {IF it.id = l.item.id
              THEN [it EXCEPT !.consumo_estimado =
                      ConsumoSumado(l.item.consumo_estimado, l.cantidad_asignada)]
              ELSE it : it \in @},
          !.stock =
             {IF r.item_id = l.item_id
              THEN [r EXCEPT !.cantidad = @ - l.cantidad_asignada] ELSE r : r \in @}],
       Done(l, 302))}

\* s.commit() of asignar_items: the flushed asignacion_items write and the
\* UPDATE of inventario.consumo_estimado become visible together.
asignar_items_commit(d, l) ==
  LET nuevo == ConsumoSumado(l.item.consumo_estimado, l.cantidad_asignada)
      escribe == l.item.id # 0 /\ nuevo # l.item.consumo_estimado
  IN
  IF escribe /\ ~ \E it \in d.inventario : it.id = l.item.id
  THEN {Out(d, Done(l, 500))}          \* StaleDataError; except: s.rollback(); raise
  ELSE {Out([d EXCEPT
               !.asignacion_items = AsignacionEscrita(@, l),
               !.inventario =
                  IF escribe
                  THEN {IF it.id = l.item.id
                        THEN [it EXCEPT !.consumo_estimado = nuevo] ELSE it : it \in @}
                  ELSE @],
            Done(l, 302))}

asignar_items_begin(material_id, item_id, cantidad_asignada) ==
  [op |-> "asignar_items", pc |-> "select_asignacion", status |-> 0,
   material_id |-> material_id, item_id |-> item_id,
   cantidad_asignada |-> cantidad_asignada,
   asignacion |-> NoAsignacion, asig_id |-> 0, item |-> NoItem]

asignar_items_step(d, l, others) ==
  CASE l.pc = "select_asignacion" ->
         \* s.query(AsignacionItem).filter_by(material_id=..., item_id=...).first()
         {Out(d, [l EXCEPT !.pc = "get_item", !.asignacion = row]) :
            row \in First({r \in d.asignacion_items :
                             r.material_id = l.material_id /\ r.item_id = l.item_id},
                          NoAsignacion)}
    [] l.pc = "get_item" ->
         \* s.get(Inventario, item_id) autoflushes the pending write first
         IF l.asignacion.id # 0
         THEN IF l.cantidad_asignada = 0
              THEN {Out(d, [l EXCEPT !.pc = "commit", !.item = GetItem(d, l.item_id)])}
              ELSE IF AsignacionLocked(others, l.asignacion.id)
              THEN {}                              \* waits for the row lock
              ELSE IF ~ \E r \in d.asignacion_items : r.id = l.asignacion.id
              THEN {Out(d, Done(l, 500))}          \* StaleDataError: UPDATE matched 0 rows
              ELSE {Out(d, [l EXCEPT !.pc = "commit", !.item = GetItem(d, l.item_id)])}
         ELSE IF \/ l.material_id \notin d.materiales                    \* FK materiales.id
                 \/ ~ \E it \in d.inventario : it.id = l.item_id         \* FK inventario.id
              THEN {Out(d, Done(l, 500))}          \* IntegrityError; rollback; raise
              ELSE {Out([d EXCEPT !.seq.asignacion_items = @ + 1],
                        [l EXCEPT !.pc = "commit", !.asig_id = d.seq.asignacion_items,
                                  !.item = GetItem(d, l.item_id)])}
    [] l.pc = "commit" -> asignar_items_commit(d, l)

\* ----------------------------------------------- eliminar_asignacion
\* (mutant) the decrement without the clamp
ConsumoRestadoSinTope(consumo_estimado, cantidad_asignada) ==
  consumo_estimado - cantidad_asignada

\* max(0, (item.consumo_estimado or 0) - asignacion.cantidad_asignada)
ConsumoRestado(consumo_estimado, cantidad_asignada) ==
  Max(0, consumo_estimado - cantidad_asignada)

\* s.commit() of eliminar_asignacion: UPDATE inventario and DELETE FROM
\* asignacion_items become visible together.
eliminar_asignacion_commit(d, l) ==
  LET nuevo == ConsumoRestado(l.item.consumo_estimado, l.asignacion.cantidad_asignada)
      escribe == l.item.id # 0 /\ nuevo # l.item.consumo_estimado
  IN
  IF escribe /\ ~ \E it \in d.inventario : it.id = l.item.id
  THEN {Out(d, Done(l, 500))}          \* StaleDataError: UPDATE matched 0 rows
  ELSE {Out([d EXCEPT
               \* a DELETE that matches no row only warns
               !.asignacion_items = {r \in @ : r.id # l.asignacion.id},
               !.inventario =
                  IF escribe
                  THEN {IF it.id = l.item.id
                        THEN [it EXCEPT !.consumo_estimado = nuevo] ELSE it : it \in @}
                  ELSE @],
            Done(l, 302))}

eliminar_asignacion_begin(asignacion_id) ==
  [op |-> "eliminar_asignacion", pc |-> "get", status |-> 0,
   asignacion_id |-> asignacion_id, asignacion |-> NoAsignacion, item |-> NoItem]

eliminar_asignacion_step(d, l, others) ==
  CASE l.pc = "get" ->
         LET asignacion == GetAsignacion(d, l.asignacion_id) IN
         IF asignacion.id = 0
         THEN {Out(d, Done(l, 404))}
         ELSE {Out(d, [l EXCEPT !.pc = "commit", !.asignacion = asignacion,
                                !.item = GetItem(d, asignacion.item_id)])}
    [] l.pc = "commit" ->
         IF AsignacionLocked(others, l.asignacion.id)
         THEN {}                                   \* DELETE waits for the row lock
         ELSE eliminar_asignacion_commit(d, l)

\* ------------------------------------------ eliminar_item_inventario
eliminar_item_inventario_begin(item_id) ==
  [op |-> "eliminar_item_inventario", pc |-> "get", status |-> 0,
   item_id |-> item_id, del_asig |-> {}, del_stock |-> {}]

\* (mutant) the two bulk DELETEs are committed, the item's own DELETE is lost
eliminar_item_inventario_commit_parcial(d, l) ==
  {Out([d EXCEPT !.asignacion_items = {r \in @ : r.id \notin l.del_asig},
                 !.stock = {r \in @ : r.id \notin l.del_stock}],
       Done(l, 302))}

\* s.delete(item); s.commit().  The flush loads item.asignaciones (backref
\* of AsignacionItem.item, no delete cascade): a row the bulk DELETE did not
\* remove is UPDATEd to item_id = NULL, which the NOT NULL column refuses.
\* It loads item.stocks (cascade "all, delete-orphan") and deletes the rows
\* it finds, then the item; everything becomes visible at COMMIT.
eliminar_item_inventario_commit(d, l) ==
  IF \E r \in d.asignacion_items : r.item_id = l.item_id /\ r.id \notin l.del_asig
  THEN {Out(d, Done(l, 500))}          \* IntegrityError; finally: s.close() rolls back
  ELSE {Out([d EXCEPT
               !.asignacion_items = {r \in @ : r.id \notin l.del_asig},
               !.stock = {r \in @ : r.item_id # l.item_id},
               \* a DELETE that matches no row only warns
               !.inventario = {it \in @ : it.id # l.item_id}],
            Done(l, 302))}

eliminar_item_inventario_step(d, l, others) ==
  CASE l.pc = "get" ->
         \* item = s.get(Inventario, item_id)
         IF GetItem(d, l.item_id).id = 0
         THEN {Out(d, Done(l, 404))}
         ELSE {Out(d, [l EXCEPT !.pc = "delete_asignaciones"])}
    [] l.pc = "delete_asignaciones" ->
         \* s.query(AsignacionItem).filter_by(item_id=item_id).delete()
         LET rows == {r \in d.asignacion_items : r.item_id = l.item_id} IN
         IF \E r \in rows : AsignacionLocked(others, r.id)
         THEN {}                                   \* DELETE waits for the row lock
         ELSE {Out(d, [l EXCEPT !.pc = "delete_stock", !.del_asig = {r.id : r \in rows}])}
    [] l.pc = "delete_stock" ->
         \* s.query(Stock).filter_by(item_id=item_id).delete()
         LET rows == {r \in d.stock : r.item_id = l.item_id} IN
         IF \E r \in rows : \E o \in others : PendingStockDelete(o, r.id)
         THEN {}
         ELSE {Out(d, [l EXCEPT !.pc = "commit", !.del_stock = {r.id : r \in rows}])}
    [] l.pc = "commit" ->
         \* DELETE FROM inventario waits for the key-share lock that a flushed
         \* INSERT INTO asignacion_items holds on the item's row
         IF \E o \in others : PendingAsignacionInsert(o) /\ o.item_id = l.item_id
         THEN {}
         ELSE eliminar_item_inventario_commit(d, l)

\* ---------------------------------------------------- agregar_material
agregar_material_begin(nombre_material) ==
  [op |-> "agregar_material", pc |-> "run", status |-> 0,
   nombre_material |-> nombre_material]

\* The area the request names exists (areas are not modelled).
agregar_material_step(d, l, others) ==
  IF l.nombre_material = ""
  THEN {Out(d, Done(l, 400))}
  ELSE {Out([d EXCEPT !.materiales = @ \cup {d.seq.materiales},
                      !.seq.materiales = @ + 1],
            Done(l, 200))}

\* --------------------------------------------------- eliminar_material
eliminar_material_begin(material_id) ==
  [op |-> "eliminar_material", pc |-> "run", status |-> 0,
   material_id |-> material_id]

\* s.delete(material): relationship cascade="all, delete-orphan" deletes the
\* material's AsignacionItem rows; no Inventario row is touched.
eliminar_material_step(d, l, others) ==
  IF l.material_id \notin d.materiales
  THEN {Out(d, Done(l, 404))}
  ELSE IF \E o \in others :
            \/ PendingAsignacionInsert(o) /\ o.material_id = l.material_id
            \/ \E r \in d.asignacion_items :
                 r.material_id = l.material_id /\ AsignacionLocked(others, r.id)
  THEN {}
  ELSE {Out([d EXCEPT
               !.asignacion_items = {r \in @ : r.material_id # l.material_id},
               !.materiales = @ \ {l.material_id}],
            Done(l, 302))}

\* ---------------------------------------------------------------- reads
\* dict.get(k, default)
DictGet(m, k, default) == IF k \in DOMAIN m THEN m[k] ELSE default

\* (mutant) totals[item_id] = cant
TotalSobrescrito(totals, item_id, cant) == cant

\* totals.get(item_id, 0) + (cant or 0)
TotalAcumulado(totals, item_id, cant) == DictGet(totals, item_id, 0) + cant

RECURSIVE Totales(_, _)
\* for item_id, cant in rows: totals[item_id] = ...
Totales(rows, totals) ==
  IF rows = {} THEN totals
  ELSE LET r == CHOOSE x \in rows : TRUE
           t == TotalAcumulado(totals, r.item_id, r.cantidad)
       IN Totales(rows \ {r},
                  [k \in DOMAIN totals \cup {r.item_id} |->
                     IF k = r.item_id THEN t ELSE totals[k]])

\* {item_id: total} over the rows of stock of every warehouse
_stock_consolidado_por_item(d) == Totales(d.stock, <<>>)

\* index: {item_id: (cant or 0) for item_id, cant in rows} over the rows of
\* one warehouse; an item's entry comes from the last of its rows, and the
\* query has no ORDER BY.
stock_map(d, almacen_id) ==
  LET rows == {r \in d.stock : r.almacen_id = almacen_id}
      ids == {r.item_id : r \in rows}
  IN {f \in [ids -> {r.cantidad : r \in rows}] :
        \A i \in ids : \E r \in rows : r.item_id = i /\ r.cantidad = f[i]}

\* GET /?almacen_id=...: todos is the view "all" (the default)
index_begin(todos, almacen_id) ==
  [op |-> "index", pc |-> "run", status |-> 0, todos |-> todos,
   almacen_id |-> almacen_id, total_map |-> <<>>, stock_map |-> <<>>]

\* The table almacenes holds the seeded rows, so the 500 answer is not given.
index_step(d, l, others) ==
  {Out(d, [Done(l, 200) EXCEPT !.total_map = _stock_consolidado_por_item(d),
                               !.stock_map = f]) :
     f \in IF l.todos THEN {<<>>} ELSE stock_map(d, l.almacen_id)}

RECURSIVE Permutaciones(_)
\* the orders in which a query without ORDER BY may return the rows
Permutaciones(S) ==
  IF S = {} THEN {<<>>}
  ELSE UNION {{<<x>> \o p : p \in Permutaciones(S \ {x})} : x \in S}

\* Almacen ids in ascending order of Almacen.nombre ("Almacén PNSR",
\* "St Joe's Schack", "Almacén Pamplona"), under a linguistic collation and
\* under the byte-order collation of the database.
Collations == {<<3, 1, 2>>, <<1, 3, 2>>}

Posicion(c, almacen_id) == CHOOSE i \in 1..Len(c) : c[i] = almacen_id

\* (mutant) ORDER BY almacenes.id
OrdenPorId(rows, c) ==
  {q \in Permutaciones(rows) :
     \A i \in 1..Len(q), j \in 1..Len(q) :
       i < j => q[i].almacen_id <= q[j].almacen_id}

\* .order_by(Almacen.nombre).all()
order_by(rows, c) ==
  {q \in Permutaciones(rows) :
     \A i \in 1..Len(q), j \in 1..Len(q) :
       i < j => Posicion(c, q[i].almacen_id) <= Posicion(c, q[j].almacen_id)}

distribucion_item_begin(item_id) ==
  [op |-> "distribucion_item", pc |-> "run", status |-> 0, item_id |-> item_id,
   rows |-> <<>>, collation |-> <<>>]

\* rows: the (Stock, Almacen) pairs, each given by its Stock row
distribucion_item_step(d, l, others) ==
  IF GetItem(d, l.item_id).id = 0
  THEN {Out(d, Done(l, 404))}
  ELSE LET rows == {r \in d.stock : /\ r.almacen_id \in AlmacenesSeed     \* join
                                    /\ r.item_id = l.item_id /\ r.cantidad > 0}
       IN UNION {{Out(d, [Done(l, 200) EXCEPT !.rows = q, !.collation = c]) :
                    q \in order_by(rows, c)} : c \in Collations}

\* (mutant) every stock at or below the demand is ROJO
SemaforoSinAmarillo(stock_, estimado) ==
  IF stock_ >= estimado THEN "VERDE" ELSE "ROJO"

\* _semaforo(stock, estimado)
_semaforo(stock_, estimado) ==
  IF stock_ >= estimado THEN "VERDE"
  ELSE IF stock_ > 0 /\ stock_ < estimado THEN "AMARILLO"
  ELSE "ROJO"

prioridad == [ROJO |-> 0, AMARILLO |-> 1, VERDE |-> 2]

\* the dict requerimientos builds for an item
Fila(it, total_map) ==
  LET estimado == it.consumo_estimado
      stock_ == DictGet(total_map, it.id, 0)
      faltante == Max(0, estimado - stock_)
  IN [id |-> it.id, nombre |-> it.nombre, categoria |-> it.categoria,
      stock |-> stock_, estimado |-> estimado, faltante |-> faltante,
      semaforo |-> _semaforo(stock_, estimado)]

\* if estimado > 0 or faltante > 0
Incluido(fila) == fila.estimado > 0 \/ fila.faltante > 0

RECURSIVE Filas(_, _)
\* for it in items: ... reqs.append({...})
Filas(items, total_map) ==
  IF items = <<>> THEN <<>>
  ELSE LET f == Fila(Head(items), total_map)
       IN (IF Incluido(f) THEN <<f>> ELSE <<>>) \o Filas(Tail(items), total_map)

\* key=lambda r: (prioridad[r["semaforo"]], -r["faltante"])
Clave(r) == <<prioridad[r.semaforo], 0 - r.faltante>>

\* tuple comparison a < b
ClaveMenor(a, b) == a[1] < b[1] \/ (a[1] = b[1] /\ a[2] < b[2])

RECURSIVE Insertar(_, _)
\* r goes after every row whose key is not greater than its own (stable)
Insertar(r, s) ==
  IF s = <<>> THEN <<r>>
  ELSE IF ClaveMenor(Clave(r), Clave(Head(s))) THEN <<r>> \o s
  ELSE <<Head(s)>> \o Insertar(r, Tail(s))

\* (mutant) the list is returned as it was built
SinOrdenar(filas) == filas

RECURSIVE sort(_)
\* reqs.sort(key=...): ascending by key, rows of equal key in their order
sort(filas) ==
  IF filas = <<>> THEN <<>>
  ELSE Insertar(filas[Len(filas)], sort(SubSeq(filas, 1, Len(filas) - 1)))

requerimientos_begin ==
  [op |-> "requerimientos", pc |-> "run", status |-> 0, requerimientos |-> <<>>]

requerimientos_step(d, l, others) ==
  LET total_map == _stock_consolidado_por_item(d) IN
  {Out(d, [Done(l, 200) EXCEPT !.requerimientos = sort(Filas(items, total_map))]) :
     items \in Permutaciones(d.inventario)}

\* ------------------------------------------------------------ dispatch
Step(d, l, others) ==
  CASE l.op = "agregar" -> agregar_step(d, l, others)
    [] l.op = "asignar_items" -> asignar_items_step(d, l, others)
    [] l.op = "eliminar_asignacion" -> eliminar_asignacion_step(d, l, others)
    [] l.op = "eliminar_item_inventario" -> eliminar_item_inventario_step(d, l, others)
    [] l.op = "agregar_material" -> agregar_material_step(d, l, others)
    [] l.op = "eliminar_material" -> eliminar_material_step(d, l, others)
    [] l.op = "index" -> index_step(d, l, others)
    [] l.op = "distribucion_item" -> distribucion_item_step(d, l, others)
    [] l.op = "requerimientos" -> requerimientos_step(d, l, others)

RECURSIVE Run(_, _)
\* A handler run to its end with no other session active: the outcomes.
Run(d, l) ==
  IF l.pc = "done" THEN {Out(d, l)}
  ELSE UNION {Run(o.db, o.l) : o \in Step(d, l, {})}

\* What Spec keeps of a served request: the status, and for a 4xx answer
\* (each has its own message) the handler that gave it.
Response(l) ==
  [op |-> IF l.status \in {400, 404} THEN l.op ELSE "served", pc |-> "done",
   status |-> l.status]

\* One request served from start to end by session 1.
Serve(l) ==
  \E o \in Run(DB, l) :
    /\ Bounded(o.db)
    /\ Install(o.db)
    /\ sess' = [sess EXCEPT ![1] = Response(o.l)]
    /\ UNCHANGED reqs

\* ------------------------------------------------- requests, one at a time
agregar(nombre, cantidad, categoria, almacen_mov_id) ==
  Serve(agregar_begin(nombre, cantidad, categoria, almacen_mov_id))

asignar_items(material_id, item_id, cantidad_asignada) ==
  Serve(asignar_items_begin(material_id, item_id, cantidad_asignada))

eliminar_asignacion(asignacion_id) ==
  Serve(eliminar_asignacion_begin(asignacion_id))

eliminar_item_inventario(item_id) ==
  Serve(eliminar_item_inventario_begin(item_id))

agregar_material(nombre_material) ==
  Serve(agregar_material_begin(nombre_material))

eliminar_material(material_id) ==
  Serve(eliminar_material_begin(material_id))

Init ==
  /\ inventario = {}
  /\ stock = {}
  /\ materiales = {}
  /\ asignacion_items = {}
  /\ seq = [inventario |-> 1, stock |-> 1, materiales |-> 1, asignacion_items |-> 1]
  /\ sess = [s \in Sessions |-> Idle]
  /\ reqs = 0

Next ==
  \/ \E nombre \in Nombres, cantidad \in CantidadesForm,
        categoria \in CategoriasForm, almacen \in AlmacenesForm :
       agregar(nombre, cantidad, categoria, almacen)
  \/ \E material_id \in IdsForm, item_id \in IdsForm, cantidad \in CantidadesForm :
       asignar_items(material_id, item_id, cantidad)
  \/ \E asignacion_id \in IdsForm : eliminar_asignacion(asignacion_id)
  \/ \E item_id \in IdsForm : eliminar_item_inventario(item_id)
  \/ \E nombre_material \in NombresMaterial : agregar_material(nombre_material)
  \/ \E material_id \in IdsForm : eliminar_material(material_id)

\* Requests served one at a time, any handler.
Spec == Init /\ [][Next]_vars

\* -------------------------------------- allocate and deallocate calls only
\* Items and materials are registered; after that only asignar_items and
\* eliminar_asignacion touch the allocation ledger.
NextAsignar ==
  \/ \E nombre \in Nombres, cantidad \in CantidadesForm,
        categoria \in CategoriasForm, almacen \in AlmacenesForm :
       agregar(nombre, cantidad, categoria, almacen)
  \/ \E nombre_material \in NombresMaterial : agregar_material(nombre_material)
  \/ \E material_id \in IdsForm, item_id \in IdsForm, cantidad \in CantidadesForm :
       asignar_items(material_id, item_id, cantidad)
  \/ \E asignacion_id \in IdsForm : eliminar_asignacion(asignacion_id)

SpecAsignar == Init /\ [][NextAsignar]_vars

\* ------------------------------------------------- concurrent requests
\* request inputs of SpecConc
AlmacenesConc == {1, 2}
CantidadesConc == {1}
IdsConc == {1, 2}

\* The ledger the concurrent requests start from: item 1 "a" received once
\* in warehouse 1, materials 1 and 2, material 1 holding one unit of item 1.
InitConc ==
  /\ inventario = {[id |-> 1, nombre |-> "a", categoria |-> "X", consumo_estimado |-> 1]}
  /\ stock = {[id |-> 1, item_id |-> 1, almacen_id |-> 1, cantidad |-> 1]}
  /\ materiales = {1, 2}
  /\ asignacion_items = {[id |-> 1, material_id |-> 1, item_id |-> 1,
                          cantidad_asignada |-> 1]}
  /\ seq = [inventario |-> 2, stock |-> 2, materiales |-> 3, asignacion_items |-> 2]
  /\ sess = [s \in Sessions |-> Idle]
  /\ reqs = 0

Others(s) == {sess[t] : t \in Sessions \ {s}}

\* Session s takes its next statement(s).
Take(s, l) ==
  \E o \in Step(DB, l, Others(s)) :
    /\ Install(o.db)
    /\ sess' = [sess EXCEPT ![s] = o.l]

\* A request arrives at a free session, which executes its first statement.
Start(s, l) ==
  /\ sess[s].pc \in {"idle", "done"}
  /\ reqs < MaxReq
  /\ reqs' = reqs + 1
  /\ Take(s, l)

StartAgregar(s) ==
  \E nombre \in Nombres, cantidad \in CantidadesConc, almacen \in AlmacenesConc :
    Start(s, agregar_begin(nombre, cantidad, "X", almacen))

StartAsignar(s) ==
  \E material_id \in IdsConc, cantidad \in CantidadesConc :
    Start(s, asignar_items_begin(material_id, 1, cantidad))

StartEliminarAsignacion(s) ==
  \E asignacion_id \in IdsConc : Start(s, eliminar_asignacion_begin(asignacion_id))

StartEliminarItem(s) == Start(s, eliminar_item_inventario_begin(1))

StartEliminarMaterial(s) ==
  \E material_id \in IdsConc : Start(s, eliminar_material_begin(material_id))

\* An open transaction executes its next statement, or waits for a lock.
Advance(s) ==
  /\ sess[s].pc \notin {"idle", "done"}
  /\ Take(s, sess[s])
  /\ UNCHANGED reqs

NextConc ==
  \E s \in Sessions :
    \/ StartAgregar(s)
    \/ StartAsignar(s)
    \/ StartEliminarAsignacion(s)
    \/ StartEliminarItem(s)
    \/ StartEliminarMaterial(s)
    \/ Advance(s)

SpecConc == InitConc /\ [][NextConc]_vars

\* ------------------------------------------------------- read requests
\* The ledger the read requests are served from: items 1 and 2 each absent
\* or present with a demand, each present item with or without a stock row
\* in each warehouse; the materials and their allocations have been removed.
ItemsLectura == {1, 2}
NombresLectura == <<"a", "b">>
DemandasLectura == {0, 1, 2}
CantidadesLectura(almacen_id) == IF almacen_id = 1 THEN {1} ELSE {-1, 0, 1}
\* query parameter "almacen_id" of index (besides "all") and route item ids
AlmacenesVista == {1, 2, 3}

InitLectura ==
  \E presentes \in SUBSET ItemsLectura :
    \E dem \in [presentes -> DemandasLectura] :
      \E pares \in SUBSET (presentes \X AlmacenesSeed) :
        \E cant \in [pares -> {-1, 0, 1}] :
          /\ \A p \in pares : cant[p] \in CantidadesLectura(p[2])
          /\ inventario = {[id |-> i, nombre |-> NombresLectura[i], categoria |-> "X",
                            consumo_estimado |-> dem[i]] : i \in presentes}
          /\ stock = {[id |-> 3 * (p[1] - 1) + p[2], item_id |-> p[1],
                       almacen_id |-> p[2], cantidad |-> cant[p]] : p \in pares}
          /\ materiales = {}
          /\ asignacion_items = {}
          /\ seq = [inventario |-> 3, stock |-> 7, materiales |-> 2,
                    asignacion_items |-> 3]
          /\ sess = [s \in Sessions |-> Idle]
          /\ reqs = 0

\* One read request served from start to end by session 1; its response is
\* kept whole.
Consulta(l) ==
  \E o \in Run(DB, l) :
    /\ Install(o.db)
    /\ sess' = [sess EXCEPT ![1] = o.l]
    /\ UNCHANGED reqs

index(todos, almacen_id) == Consulta(index_begin(todos, almacen_id))

distribucion_item(item_id) == Consulta(distribucion_item_begin(item_id))

requerimientos == Consulta(requerimientos_begin)

NextLectura ==
  \/ index(TRUE, 0)
  \/ \E almacen_id \in AlmacenesVista : index(FALSE, almacen_id)
  \/ \E item_id \in IdsForm : distribucion_item(item_id)
  \/ requerimientos

SpecLectura == InitLectura /\ [][NextLectura]_vars

\* ================================================================ claims
\* sum of the quantities of the allocation rows that reference the item
SumaAsignada(rows, item_id) ==
  SumOver({r \in rows : r.item_id = item_id}, "cantidad_asignada", 0)

DemandMatches(d) ==
  \A it \in d.inventario :
    it.consumo_estimado = SumaAsignada(d.asignacion_items, it.id)

SameTables(d) ==
  /\ d.inventario = inventario
  /\ d.stock = stock
  /\ d.materiales = materiales
  /\ d.asignacion_items = asignacion_items

\* C1 (SpecAsignar): in every state reached by asignar_items and
\* eliminar_asignacion calls served one at a time, every item's
\* consumo_estimado equals the sum of cantidad_asignada over the
\* asignacion_items rows that reference it.
C1_DemandEqualsAllocations == DemandMatches(DB)

\* C2 (Spec): every successful agregar on an (item, warehouse) pair leaves
\* exactly one stock row for the pair, holding the quantity the pair had
\* before (0 when it had no row) plus the received quantity, and leaves
\* every other stock row as it was; so a sequence of receipts on the pair
\* adds up and never overwrites.
C2_ReceiveAccumulates ==
  \A nombre \in Nombres, cantidad \in CantidadesForm,
     categoria \in CategoriasForm, almacen \in AlmacenesForm :
    \A o \in Run(DB, agregar_begin(nombre, cantidad, categoria, almacen)) :
      o.l.status = 302 =>
        \E it \in o.db.inventario :
          /\ it.nombre = nombre
          /\ LET antes == {r \in stock : r.item_id = it.id /\ r.almacen_id = almacen}
                 despues == {r \in o.db.stock : r.item_id = it.id /\ r.almacen_id = almacen}
             IN /\ Cardinality(despues) = 1
                /\ \A r \in despues : r.cantidad = SumOver(antes, "cantidad", 0) + cantidad
                /\ o.db.stock \ despues = stock \ antes

\* C2 witness: a second receipt was served and the row holds the sum of two
\* receipts (no single request receives more than 1).
C2_Witness ==
  /\ sess[1].pc = "done" /\ sess[1].status = 302
  /\ \E r \in stock : r.cantidad = 2

\* C3 (SpecConc): no two stock rows share (item_id, almacen_id), whatever
\* the interleaving of the sessions' statements.
C3_StockUnique ==
  \A r1 \in stock, r2 \in stock :
    (r1.item_id = r2.item_id /\ r1.almacen_id = r2.almacen_id) => r1 = r2

\* C3 witness: two sessions each found no row for (item 1, warehouse 2) and
\* each tried the INSERT; one committed, the other got the IntegrityError.
C3_Witness ==
  /\ \A s \in Sessions :
       /\ sess[s].op = "agregar" /\ sess[s].pc = "done"
       /\ sess[s].almacen_mov_id = 2 /\ sess[s].st.id = 0
  /\ sess[1].status = 302 /\ sess[2].status = 500
  /\ Cardinality({r \in stock : r.item_id = 1 /\ r.almacen_id = 2}) = 1

\* C4 (SpecConc): no two asignacion_items rows share (material_id, item_id),
\* whatever the interleaving of the sessions' statements.
C4_AsignacionUnique ==
  \A r1 \in asignacion_items, r2 \in asignacion_items :
    (r1.material_id = r2.material_id /\ r1.item_id = r2.item_id) => r1 = r2

\* The UPDATE of consumo_estimado a session's unit of work holds: none when
\* the value it computed is the value it read, otherwise the item's row set
\* to that value.
C5_DemandWritten(l, nuevo) ==
  \/ nuevo = l.item.consumo_estimado
  \/ \E it \in inventario' : it.id = l.item.id /\ it.consumo_estimado = nuevo

\* What a step of session s, serving asignar_items or eliminar_asignacion,
\* may make visible: nothing; or, at its COMMIT, the allocation write and
\* the demand write of its unit of work, both.
C5_Step(s) ==
  LET l == sess'[s]
      asigCambia == asignacion_items' # asignacion_items
      invCambia == inventario' # inventario
  IN
  (sess'[s] # sess[s] /\ l.op \in {"asignar_items", "eliminar_asignacion"}) =>
    /\ (asigCambia \/ invCambia) => l.pc = "done" /\ l.status = 302
    /\ l.op = "asignar_items" =>
         /\ asigCambia =>
              C5_DemandWritten(l, ConsumoSumado(l.item.consumo_estimado,
                                                l.cantidad_asignada))
         /\ invCambia =>
              \E r \in asignacion_items' :
                /\ r.material_id = l.material_id /\ r.item_id = l.item_id
                /\ r.id = IF l.asignacion.id = 0 THEN l.asig_id ELSE l.asignacion.id
                /\ r.cantidad_asignada =
                     AsignacionSumada(l.asignacion, l.cantidad_asignada)
    /\ l.op = "eliminar_asignacion" =>
         /\ asigCambia =>
              C5_DemandWritten(l, ConsumoRestado(l.item.consumo_estimado,
                                                 l.asignacion.cantidad_asignada))
         /\ invCambia => ~ \E r \in asignacion_items' : r.id = l.asignacion.id

\* C5 (SpecConc): asignar_items and eliminar_asignacion are atomic: no step
\* of either makes its allocation write visible without its demand write, or
\* the reverse, and a call that fails leaves both tables as they were.
C5_AtomicAllocation == [][\A s \in Sessions : C5_Step(s)]_vars

\* C5 witness: an asignar_items has committed its row and its demand while
\* another session's allocation transaction is open.
C5_Witness ==
  \E s \in Sessions, t \in Sessions :
    /\ sess[s].op = "asignar_items" /\ sess[s].pc = "done" /\ sess[s].status = 302
    /\ sess[t].op \in {"asignar_items", "eliminar_asignacion"} /\ sess[t].pc = "commit"
    /\ \E r \in asignacion_items : r.id = sess[s].asig_id
    /\ \E it \in inventario :
         it.id = 1 /\ it.consumo_estimado = sess[s].item.consumo_estimado + 1

\* C6 (SpecConc): once two sessions have each served one asignar_items or
\* eliminar_asignacion on item 1 and both have returned, the item's
\* consumo_estimado equals the sum of its allocation rows.
C6_NoLostDemandUpdate ==
  (/\ reqs = 2
   /\ \A s \in Sessions :
        sess[s].pc = "done" /\ sess[s].op \in {"asignar_items", "eliminar_asignacion"})
    => DemandMatches(DB)

\* C7 (SpecConc): once two sessions have each served one successful agregar
\* on the existing row of (item 1, warehouse 1) and both have returned, the
\* row holds its initial quantity 1 plus both received quantities.
C7_NoLostStockUpdate ==
  (/\ reqs = 2
   /\ \A s \in Sessions :
        /\ sess[s].pc = "done" /\ sess[s].op = "agregar" /\ sess[s].status = 302
        /\ sess[s].almacen_mov_id = 1 /\ sess[s].st.id = 1)
    => \A r \in stock :
         r.id = 1 => r.cantidad = 1 + sess[1].cantidad + sess[2].cantidad

\* A request that names an existing item under another category is answered
\* 400 and changes nothing.
C8_ConflictRejected ==
  \A nombre \in Nombres, cantidad \in CantidadesForm,
     categoria \in CategoriasForm, almacen \in AlmacenesForm :
    LET l == agregar_begin(nombre, cantidad, categoria, almacen) IN
    (\E it \in inventario : it.nombre = nombre /\ it.categoria # l.categoria) =>
      \A o \in Run(DB, l) : o.l.status = 400 /\ o.db = DB

\* No step changes the category of a row of inventario.
C8_CategoriaFija ==
  \A it \in inventario : \A it2 \in inventario' :
    it2.id = it.id => it2.categoria = it.categoria

\* C8 (Spec): agregar naming an existing item under a different category
\* answers 400 and changes no table; and the category of an item never
\* changes once the item exists.
C8_CategoryConflict == [] C8_ConflictRejected /\ [][C8_CategoriaFija]_vars

\* C8 witness: agregar has answered 400 for the item, whose stock is held.
C8_Witness ==
  /\ sess[1].op = "agregar" /\ sess[1].status = 400
  /\ \E it \in inventario : \E r \in stock : r.item_id = it.id /\ r.cantidad > 0

\* C9 (Spec): asignar_items with a zero or negative quantity, naming an
\* existing material and an existing item, is answered 400 and changes no
\* table.
C9_NonPositiveRejected ==
  \A material_id \in materiales, it \in inventario, cantidad \in CantidadesForm :
    cantidad <= 0 =>
      \A o \in Run(DB, asignar_items_begin(material_id, it.id, cantidad)) :
        o.l.status = 400 /\ SameTables(o.db)

\* C10 (Spec): asignar_items of a positive quantity naming a material or an
\* item that does not exist is answered 404, leaves no allocation row and
\* changes no demand.
C10_MissingIsNotFound ==
  \A material_id \in IdsForm, item_id \in IdsForm, cantidad \in CantidadesForm :
    (cantidad > 0 /\ (material_id \notin materiales \/ GetItem(DB, item_id).id = 0)) =>
      \A o \in Run(DB, asignar_items_begin(material_id, item_id, cantidad)) :
        o.l.status = 404 /\ SameTables(o.db)

\* C11 (Spec): every stock row holds a quantity that is zero or more.
C11_StockNonNegative == \A r \in stock : r.cantidad >= 0

\* C12 (Spec): every eliminar_asignacion that answers with its redirect
\* leaves the item's consumo_estimado at max(0, demand before - quantity of
\* the row), hence at zero or more, and leaves no row with the id.
C12_DeallocateClamps ==
  \A asignacion_id \in IdsForm :
    LET a == GetAsignacion(DB, asignacion_id)
        antes == GetItem(DB, a.item_id)
        resta == antes.consumo_estimado - a.cantidad_asignada
    IN
    \A o \in Run(DB, eliminar_asignacion_begin(asignacion_id)) :
      o.l.status = 302 =>
        /\ a.id # 0
        /\ ~ \E r \in o.db.asignacion_items : r.id = asignacion_id
        /\ \E it \in o.db.inventario :
             /\ it.id = a.item_id
             /\ it.consumo_estimado = IF resta > 0 THEN resta ELSE 0
             /\ it.consumo_estimado >= 0

\* C12 witness: the stored demand is smaller than the quantity of a row, and
\* eliminar_asignacion of that row answers 302 and leaves the demand at 0.
C12_Witness ==
  \E r \in asignacion_items : \E it \in inventario :
    /\ r.item_id = it.id /\ it.consumo_estimado < r.cantidad_asignada
    /\ \E o \in Run(DB, eliminar_asignacion_begin(r.id)) :
         /\ o.l.status = 302
         /\ GetItem(o.db, it.id).consumo_estimado = 0
         /\ GetAsignacion(o.db, r.id).id = 0

\* No stock row and no allocation row references an item that is not there.
C13_NoDangling ==
  /\ \A r \in stock : \E it \in inventario : it.id = r.item_id
  /\ \A r \in asignacion_items : \E it \in inventario : it.id = r.item_id

\* What a step of session s serving eliminar_item_inventario may make
\* visible: nothing; or, with its redirect, the item, its stock rows and its
\* allocation rows gone together and every other row as it was.  Its first
\* statement answers 404 exactly when the item is not there.
C13_Step(s) ==
  LET l == sess'[s]
      hecho == l.pc = "done" /\ l.status = 302
  IN
  (sess'[s] # sess[s] /\ l.op = "eliminar_item_inventario") =>
    /\ hecho =>
         /\ inventario' = {it \in inventario : it.id # l.item_id}
         /\ stock' = {r \in stock : r.item_id # l.item_id}
         /\ asignacion_items' = {r \in asignacion_items : r.item_id # l.item_id}
         /\ materiales' = materiales
    /\ ~ hecho => UNCHANGED <<inventario, stock, materiales, asignacion_items>>
    /\ sess[s].pc \in {"idle", "done"} =>
         ((l.pc = "done" /\ l.status = 404) <=> ~ \E it \in inventario : it.id = l.item_id)

\* C13 (SpecConc): eliminar_item_inventario on an existing item makes the
\* item, every stock row and every allocation row that references it
\* disappear in one step, no other step of it changes a table, and no state
\* holds a row that references a missing item; on a missing item it answers
\* 404 and changes nothing.
C13_AtomicCascade == [] C13_NoDangling /\ [][\A s \in Sessions : C13_Step(s)]_vars

\* C13 witness: the item, its stock row and its allocation row were removed
\* by one eliminar_item_inventario while another session had a request open.
C13_Witness ==
  \E s \in Sessions, t \in Sessions :
    /\ sess[s].op = "eliminar_item_inventario" /\ sess[s].pc = "done"
    /\ sess[s].status = 302 /\ sess[s].del_asig # {} /\ sess[s].del_stock # {}
    /\ sess[t].pc \notin {"idle", "done"}
    /\ inventario = {} /\ stock = {} /\ asignacion_items = {}

RECURSIVE C14_SumaAlmacenes(_, _, _)
\* sum over the warehouses ws of the per-warehouse total of the item in the
\* responses m[w] (absent key read as zero)
C14_SumaAlmacenes(ws, m, item_id) ==
  IF ws = {} THEN 0
  ELSE LET w == CHOOSE x \in ws : TRUE
       IN DictGet(m[w].l.stock_map, item_id, 0) + C14_SumaAlmacenes(ws \ {w}, m, item_id)

\* C14 (SpecLectura): for every item, the consolidated total index returns
\* (absent key read as zero) equals the sum, over the warehouses, of the
\* per-warehouse totals index returns for each warehouse.
C14_ConsolidatedIsSum ==
  \A t \in Run(DB, index_begin(TRUE, 0)) :
    \A m \in [AlmacenesSeed -> UNION {Run(DB, index_begin(FALSE, w)) : w \in AlmacenesSeed}] :
      (\A w \in AlmacenesSeed : m[w].l.almacen_id = w) =>
        \A item_id \in ItemsLectura :
          DictGet(t.l.total_map, item_id, 0) = C14_SumaAlmacenes(AlmacenesSeed, m, item_id)

\* C14 witness: index answered for one warehouse, and an item's consolidated
\* total is more than its positive total in that warehouse.
C14_Witness ==
  /\ sess[1].op = "index" /\ sess[1].pc = "done" /\ ~ sess[1].todos
  /\ \E i \in DOMAIN sess[1].stock_map :
       sess[1].stock_map[i] > 0 /\ sess[1].total_map[i] > sess[1].stock_map[i]

\* the stocks and demands _semaforo is checked on
C15_Valores == -2 .. 3

\* C15 (SpecLectura): _semaforo gives VERDE exactly when stock >= demand,
\* AMARILLO exactly when 0 < stock < demand and ROJO in every other case;
\* (0, 0) is VERDE and (0, demand > 0) is ROJO; and every row of the
\* requerimientos report carries the class of its stock and demand.
C15_Classify ==
  /\ \A s \in C15_Valores, e \in C15_Valores :
       LET c == _semaforo(s, e) IN
       /\ c \in {"VERDE", "AMARILLO", "ROJO"}
       /\ c = "VERDE" <=> s >= e
       /\ c = "AMARILLO" <=> (0 < s /\ s < e)
       /\ (s = 0 /\ e = 0) => c = "VERDE"
       /\ (s = 0 /\ e > 0) => c = "ROJO"
  /\ (sess[1].op = "requerimientos" /\ sess[1].pc = "done") =>
       \A i \in 1..Len(sess[1].requerimientos) :
         LET r == sess[1].requerimientos[i] IN
         r.semaforo = IF r.stock >= r.estimado THEN "VERDE"
                      ELSE IF 0 < r.stock THEN "AMARILLO" ELSE "ROJO"

\* C15 witness: a report holding a row with some stock below its demand and
\* a row with no stock and a demand.
C15_Witness ==
  /\ sess[1].op = "requerimientos" /\ sess[1].pc = "done"
  /\ \E i, j \in 1..Len(sess[1].requerimientos) :
       /\ sess[1].requerimientos[i].semaforo = "AMARILLO"
       /\ sess[1].requerimientos[j].semaforo = "ROJO"
       /\ sess[1].requerimientos[j].stock = 0

\* C16 (SpecLectura): the requerimientos report lists an item exactly when
\* its demand is more than zero or its shortfall max(0, demand - consolidated
\* stock) is more than zero, and never lists an item whose demand is zero.
C16_ReportInclusion ==
  (sess[1].op = "requerimientos" /\ sess[1].pc = "done") =>
    \A it \in inventario :
      LET on_hand == SumOver({r \in stock : r.item_id = it.id}, "cantidad", 0)
          resta == it.consumo_estimado - on_hand
          shortfall == IF resta > 0 THEN resta ELSE 0
          listed == \E i \in 1..Len(sess[1].requerimientos) :
                      sess[1].requerimientos[i].id = it.id
      IN /\ listed <=> (it.consumo_estimado > 0 \/ shortfall > 0)
         /\ it.consumo_estimado = 0 => ~ listed

\* severity rank of a class
C17_Rank == [ROJO |-> 0, AMARILLO |-> 1, VERDE |-> 2]

\* C17 (SpecLectura): in the requerimientos report a row of lower severity
\* rank (ROJO 0, AMARILLO 1, VERDE 2) comes before every row of higher rank,
\* and among rows of one rank the shortfalls never increase.
C17_ReportOrdered ==
  (sess[1].op = "requerimientos" /\ sess[1].pc = "done") =>
    \A i, j \in 1..Len(sess[1].requerimientos) :
      i < j =>
        LET a == sess[1].requerimientos[i]
            b == sess[1].requerimientos[j]
        IN /\ C17_Rank[a.semaforo] <= C17_Rank[b.semaforo]
           /\ C17_Rank[a.semaforo] = C17_Rank[b.semaforo] => a.faltante >= b.faltante

\* C17 witness: a report of two rows in which item 2, ROJO, precedes item 1.
C17_Witness ==
  /\ sess[1].op = "requerimientos" /\ sess[1].pc = "done"
  /\ Len(sess[1].requerimientos) = 2
  /\ sess[1].requerimientos[1].id = 2 /\ sess[1].requerimientos[1].semaforo = "ROJO"
  /\ sess[1].requerimientos[2].semaforo \in {"AMARILLO", "VERDE"}

\* C18 (SpecLectura): distribucion_item answers 404 exactly when the item
\* does not exist; otherwise it returns, once each, the (warehouse, quantity)
\* pairs of the item's stock rows whose quantity is more than zero, in
\* ascending order of warehouse name.
C18_Distribution ==
  (sess[1].op = "distribucion_item" /\ sess[1].pc = "done") =>
    LET l == sess[1]
        existe == \E it \in inventario : it.id = l.item_id
        pares == {<<r.almacen_id, r.cantidad>> :
                    r \in {x \in stock : x.item_id = l.item_id /\ x.cantidad > 0}}
    IN /\ l.status = 404 <=> ~ existe
       /\ existe =>
            /\ l.status = 200
            /\ {<<l.rows[i].almacen_id, l.rows[i].cantidad>> : i \in 1..Len(l.rows)} = pares
            /\ Len(l.rows) = Cardinality(pares)
            /\ \A i, j \in 1..Len(l.rows) :
                 i < j => Posicion(l.collation, l.rows[i].almacen_id)
                            < Posicion(l.collation, l.rows[j].almacen_id)

\* C18 witness: the item holds stock in the three warehouses, none in
\* warehouse 2; the answer lists "Almacén Pamplona" (3) before "Almacén
\* PNSR" (1).
C18_Witness ==
  /\ sess[1].op = "distribucion_item" /\ sess[1].pc = "done" /\ sess[1].status = 200
  /\ Len(sess[1].rows) = 2
  /\ sess[1].rows[1].almacen_id = 3 /\ sess[1].rows[2].almacen_id = 1
  /\ \E r \in stock : r.item_id = sess[1].item_id /\ r.almacen_id = 2 /\ r.cantidad <= 0

\* C19 (Spec): when every item's demand equals the sum of its allocation
\* rows (all of positive quantity), it still does after eliminar_material.
C19_MaterialDeletePreserves ==
  (DemandMatches(DB) /\ \A r \in asignacion_items : r.cantidad_asignada > 0) =>
    \A material_id \in IdsForm :
      \A o \in Run(DB, eliminar_material_begin(material_id)) : DemandMatches(o.db)

\* C20 (Spec): asignar_items, eliminar_asignacion, agregar_material and
\* eliminar_material leave every stock row as it was, and
\* eliminar_item_inventario changes no row it leaves; agregar leaves every
\* allocation row and every existing item's row as they were; index,
\* distribucion_item and requerimientos leave the whole database as it was.
C20_FrameEffects ==
  /\ \A material_id \in IdsForm, item_id \in IdsForm, cantidad \in CantidadesForm :
       \A o \in Run(DB, asignar_items_begin(material_id, item_id, cantidad)) :
         o.db.stock = stock
  /\ \A id \in IdsForm :
       /\ \A o \in Run(DB, eliminar_asignacion_begin(id)) : o.db.stock = stock
       /\ \A o \in Run(DB, eliminar_material_begin(id)) : o.db.stock = stock
       /\ \A o \in Run(DB, eliminar_item_inventario_begin(id)) : o.db.stock \subseteq stock
       /\ \A o \in Run(DB, distribucion_item_begin(id)) : o.db = DB
  /\ \A nombre_material \in NombresMaterial :
       \A o \in Run(DB, agregar_material_begin(nombre_material)) : o.db.stock = stock
  /\ \A nombre \in Nombres, cantidad \in CantidadesForm,
        categoria \in CategoriasForm, almacen \in AlmacenesForm :
       \A o \in Run(DB, agregar_begin(nombre, cantidad, categoria, almacen)) :
         /\ o.db.asignacion_items = asignacion_items
         /\ inventario \subseteq o.db.inventario
  /\ \A o \in Run(DB, index_begin(TRUE, 0)) : o.db = DB
  /\ \A almacen_id \in AlmacenesVista :
       \A o \in Run(DB, index_begin(FALSE, almacen_id)) : o.db = DB
  /\ \A o \in Run(DB, requerimientos_begin) : o.db = DB

\* C20 witness: a request was served with its redirect in a ledger that
\* holds stock, an allocation and a demand for the item.
C20_Witness ==
  /\ sess[1].pc = "done" /\ sess[1].status = 302
  /\ \E it \in inventario :
       /\ it.consumo_estimado > 0
       /\ \E r \in stock : r.item_id = it.id /\ r.cantidad > 0
       /\ \E r \in asignacion_items : r.item_id = it.id /\ r.cantidad_asignada > 0

====
